---- MODULE Spec2Model ----
(***************************************************************************)
(* AffineWarping (affinewarp/affinewarp.py): piecewise affine time warping *)
(* fitted by alternating a random-search warp optimiser (fit_warps) and a  *)
(* least-squares template update (fit_template).                           *)
(*                                                                         *)
(* Numbers are quantised.  The unit interval [0, 1] of knot positions and  *)
(* of the time base is the integer grid 0 .. Unit; array rows are          *)
(* sequences; a numpy array of shape (K, T, N) is a sequence of K trials,  *)
(* each a sequence of T timepoints, each a sequence of N channel values.   *)
(* The interpolation kernels of affinewarp/interp.py and the helpers of    *)
(* affinewarp/utils.py are not part of the source tree at hand; they are   *)
(* modelled from their documented contracts with nearest-grid-point        *)
(* resampling.                                                             *)
(***************************************************************************)
EXTENDS Integers, Sequences, FiniteSets, TLC

\* ------------------------------------------------------------------ bounds
\* Random perturbations are drawn from -MaxDelta .. MaxDelta grid steps.
MaxDelta == 1
\* Largest `iterations` argument given to fit / continue_fit.
MaxIterations == 1
\* Largest `warp_iterations` argument given to fit / continue_fit.
MaxWarpIterations == 2
\* continue_fit is only started when loss_hist stays within this length.
MaxHist == 3

\* The value 1.0 of np.linspace(0, 1, ...) in grid steps.
Unit == 2

\* Python None for an attribute that otherwise holds an array or a list.
None == <<>>
\* No data: the frame of a call that has not been made.
NoData == [name |-> "-", ndim |-> 0, numeric |-> FALSE, val |-> <<>>]

\* ------------------------------------------------------------- input data
\* Arrays handed to fit / continue_fit.  `ndim` and `numeric` are what
\* np.asarray(data).ndim and np.issubdtype(data.dtype, np.number) report.
DataA == [name |-> "A", ndim |-> 3, numeric |-> TRUE,
          val |-> << << <<2>>, <<0>>, <<0>> >>, << <<0>>, <<0>>, <<2>> >> >>]
DataB == [name |-> "B", ndim |-> 3, numeric |-> TRUE,
          val |-> << << <<0>>, <<2>>, <<2>> >>, << <<0>>, <<0>>, <<2>> >> >>]
\* Two channels: a channel count different from the one of DataA / DataB.
DataC == [name |-> "C", ndim |-> 3, numeric |-> TRUE,
          val |-> << << <<0, 1>>, <<2, 1>>, <<0, 1>> >>,
                     << <<0, 1>>, <<0, 1>>, <<2, 1>> >> >>]
\* A 3-d array of dtype object (not a numeric dtype).
DataObj == [name |-> "Obj", ndim |-> 3, numeric |-> FALSE,
            val |-> << << <<0>>, <<0>>, <<2>> >>, << <<2>>, <<2>>, <<0>> >> >>]
\* A 2-d array (trials x timepoints).
Data2D == [name |-> "2D", ndim |-> 2, numeric |-> TRUE,
           val |-> << <<2, 0, 0>>, <<0, 0, 2>> >>]

FitInputs == {DataA, DataObj, Data2D}
ContinueInputs == {DataA, DataB, DataC}

\* data.shape[0], data.shape[1], data.shape[-1]
ShapeK(d) == Len(d.val)
ShapeT(d) == Len(d.val[1])
ShapeN(d) == Len(d.val[1][1])

\* ---------------------------------------------------------------- helpers
RECURSIVE SumSeq(_)
SumSeq(s) == IF s = <<>> THEN 0 ELSE Head(s) + SumSeq(Tail(s))

Max(S) == CHOOSE m \in S : \A e \in S : e <= m
Min(S) == CHOOSE m \in S : \A e \in S : m <= e
Abs(v) == IF v < 0 THEN 0 - v ELSE v
Clip(v, lo, hi) == IF v < lo THEN lo ELSE IF v > hi THEN hi ELSE v

\* ndarray.mean() of a 1-d array, quantised.
Mean(s) == SumSeq(s) \div Len(s)

NonDecreasing(row) == \A p \in 1..(Len(row) - 1) : row[p] <= row[p + 1]

\* np.linspace(0, 1, n) on the grid.
Linspace01(n) == [p \in 1..n |-> ((p - 1) * Unit) \div (n - 1)]

\* ------------------------------------------------- kernels (interp, utils)
\* The reference time base np.linspace(0, 1, T), in grid steps.
Tref(T) == [t \in 1..T |-> ((t - 1) * Unit) \div (T - 1)]

\* One trial's piecewise-affine map (knots xr -> yr) evaluated at q by
\* linear interpolation between the bracketing knots.
WarpAt(xr, yr, q) ==
    LET P == Len(xr)
        p == Max({1} \cup {i \in 1..(P - 1) : xr[i] <= q})
        dx == xr[p + 1] - xr[p]
    IN  IF q >= xr[P] THEN yr[P]
        ELSE IF dx <= 0 THEN yr[p]
        ELSE yr[p] + ((q - xr[p]) * (yr[p + 1] - yr[p])) \div dx

\* Index of the template sample nearest below the warped time w.
SampleIdx(w, T) == Clip((w * (T - 1)) \div Unit, 0, T - 1) + 1

\* predictwarp: the template resampled through each trial's forward warp.
predictwarp(x, y, tmpl) ==
    LET T == Len(tmpl)
    IN  [k \in 1..Len(x) |->
            [t \in 1..T |-> tmpl[SampleIdx(WarpAt(x[k], y[k], Tref(T)[t]), T)]]]

\* Squared error of one timepoint summed over channels.
SqErr(p, d) == SumSeq([n \in 1..Len(d) |-> (p[n] - d[n]) * (p[n] - d[n])])

\* quad_loss: per-trial squared reconstruction error.
quad_loss(pred, d) ==
    [k \in 1..Len(pred) |->
        SumSeq([t \in 1..Len(pred[k]) |-> SqErr(pred[k][t], d.val[k][t])])]

\* One trial of warp_with_quadloss: add the squared error timepoint by
\* timepoint to the accumulator; with early_stop, stop once the running
\* sum exceeds the trial's best-known loss.
RECURSIVE AccLoss(_, _, _, _, _, _, _, _)
AccLoss(xr, yr, tmpl, dk, t, acc, last, early_stop) ==
    LET T == Len(tmpl)
    IN  IF t > T THEN acc
        ELSE IF early_stop /\ acc > last THEN acc
        ELSE AccLoss(xr, yr, tmpl, dk, t + 1,
                     acc + SqErr(tmpl[SampleIdx(WarpAt(xr, yr, Tref(T)[t]), T)],
                                 dk[t]),
                     last, early_stop)

\* warp_with_quadloss(X, Y, template, new_loss, last_loss, data, early_stop)
warp_with_quadloss(Xk, Yk, tmpl, new_loss, last_loss, d, early_stop) ==
    [k \in 1..Len(Xk) |->
        AccLoss(Xk[k], Yk[k], tmpl, d.val[k], 1, new_loss[k], last_loss[k],
                early_stop)]

\* warp_penalties: per-trial displacement between corresponding knots.
warp_penalties(Xk, Yk) ==
    [k \in 1..Len(Xk) |->
        SumSeq([p \in 1..Len(Xk[k]) |-> Abs(Xk[k][p] - Yk[k][p])])]

\* _force_monotonic_knots on one row: endpoints pinned to 0 and 1,
\* interior entries projected into [0, 1] and made non-decreasing.
RECURSIVE ForceRow(_, _, _)
ForceRow(row, p, done) ==
    LET P == Len(row)
    IN  IF p > P THEN done
        ELSE IF p = 1 THEN ForceRow(row, 2, <<0>>)
        ELSE IF p = P THEN Append(done, Unit)
        ELSE ForceRow(row, p + 1,
                      Append(done, Max({done[p - 1], Clip(row[p], 0, Unit)})))

_force_monotonic_knots(xr, yr) == <<ForceRow(xr, 1, <<>>), ForceRow(yr, 1, <<>>)>>

\* Timepoints (k, t) of the data that are explained by template sample s.
Feeds(x, y, T, s) ==
    {kt \in (1..Len(x)) \X (1..T) :
        SampleIdx(WarpAt(x[kt[1]], y[kt[1]], Tref(T)[kt[2]]), T) = s}

\* The banded normal equations are singular when some template sample
\* receives no weight from any trial (l2_smoothness = 0).
Singular(d, x, y) == \E s \in 1..ShapeT(d) : Feeds(x, y, ShapeT(d), s) = {}

RECURSIVE SumOver(_, _, _)
SumOver(S, d, n) ==
    IF S = {} THEN 0
    ELSE LET kt == CHOOSE e \in S : TRUE
         IN  d.val[kt[1]][kt[2]][n] + SumOver(S \ {kt}, d, n)

\* _fast_template_grams + solveh_banded: the least-squares template.
TemplateSolve(d, x, y) ==
    [s \in 1..ShapeT(d) |->
        [n \in 1..ShapeN(d) |->
            LET F == Feeds(x, y, ShapeT(d), s)
            IN  SumOver(F, d, n) \div Cardinality(F)]]

\* data.mean(axis=0).astype(float)
MeanAxis0(d) ==
    [t \in 1..ShapeT(d) |->
        [n \in 1..ShapeN(d) |->
            SumSeq([k \in 1..ShapeK(d) |-> d.val[k][t][n]]) \div ShapeK(d)]]

\* ----------------------------------------------------------- _mutate_knots
Deltas == (0 - MaxDelta)..MaxDelta

\* All sequences whose k-th element is drawn from sets[k].
RECURSIVE Product(_)
Product(sets) ==
    IF sets = <<>> THEN {<<>>}
    ELSE {<<h>> \o t : h \in Head(sets), t \in Product(Tail(sets))}

\* The rows one trial can get from the perturbation np.random.randn(...) *
\* temperature: noise on every entry of y, and on the interior entries of
\* x when n_knots > 0.  A Gaussian of any positive scale reaches every
\* grid step, so the draw does not depend on the temperature.
PerturbedRows(xr, yr, nk) ==
    LET P == Len(xr)
    IN  {<<[p \in 1..P |-> IF nk > 0 /\ p > 1 /\ p < P THEN xr[p] + dx[p] ELSE xr[p]],
           [p \in 1..P |-> yr[p] + dy[p]]>> :
            dx \in [2..(P - 1) -> Deltas], dy \in [1..P -> Deltas]}

\* The perturbation returned without the monotonicity repair.
_mutate_knots_unrepaired(x, y, nk, temperature) ==
    Product([k \in 1..Len(x) |-> PerturbedRows(x[k], y[k], nk)])

\* The candidates (one <<x row, y row>> per trial) _mutate_knots can return.
_mutate_knots(x, y, nk, temperature) ==
    Product([k \in 1..Len(x) |->
                {_force_monotonic_knots(r[1], r[2]) :
                    r \in PerturbedRows(x[k], y[k], nk)}])

\* ------------------------------------------------------------------- state
VARIABLES
    n_knots, warpreg, min_temp, max_temp,     \* constructor options
    template, x_knots, y_knots,               \* the model
    _losses, _penalties, loss_hist,           \* per-trial loss state, history
    _new_losses, _new_penalties,              \* scratch arrays of fit_warps
    pc,                                       \* position inside fit / continue_fit
    data, it, iterations, warp_iterations, fit_template_arg,   \* call frame
    temps, X, Y,                              \* fit_warps: schedule left, candidate
    last_call, result,                        \* the last API call and its outcome
    fit_completed,                            \* some fit call has returned normally
    temp_hist,                                \* temperatures visited by this fit_warps
    template_at_entry,                        \* template when continue_fit was entered
    hist_at_entry,                            \* loss_hist when continue_fit was entered
    step_outcome                              \* per trial, what line 159 decided last

config == <<n_knots, warpreg, min_temp, max_temp>>
model == <<template, x_knots, y_knots>>
lossState == <<_losses, _penalties, loss_hist>>
scratch == <<_new_losses, _new_penalties>>
frame == <<data, it, iterations, warp_iterations, fit_template_arg, temps, X, Y>>
ghost == <<fit_completed, temp_hist, template_at_entry, hist_at_entry, step_outcome>>
vars == <<config, model, lossState, scratch, pc, frame, last_call, result, ghost>>

\* Defaults of __init__.
DefaultMinTemp == -2
DefaultMaxTemp == 0
KnotChoices == {0, 1}
WarpregChoices == {0, 1}

\* What an entry of an array from np.empty_like may hold when it is read
\* before it was written.
EmptyValues == {0, 9}
\* An entry of an array from np.empty_like that is written before it is read.
Unwritten == "unwritten"

\* Keyword arguments of fit / continue_fit.  `ok` is FALSE for keywords
\* that the signature of continue_fit does not accept.
Kwargs ==
    {[ok |-> FALSE, iterations |-> 0, warp_iterations |-> 0, fit_template |-> TRUE]}
    \cup [ok : {TRUE}, iterations : 0..MaxIterations,
          warp_iterations : 1..MaxWarpIterations, fit_template : BOOLEAN]

\* Outcomes of a call.
Error(type, about) == [kind |-> "error", type |-> type, val |-> about]
Returned(v) == [kind |-> "value", type |-> "-", val |-> v]
Running == [kind |-> "running", type |-> "-", val |-> None]
NoCall == [op |-> "-", arg |-> "-", fitted |-> FALSE]

\* __init__ (n_knots >= 0): no template, no knots, nothing fitted.
Init ==
    /\ n_knots \in KnotChoices
    /\ warpreg \in WarpregChoices
    /\ min_temp = DefaultMinTemp
    /\ max_temp = DefaultMaxTemp
    /\ template = None /\ x_knots = None /\ y_knots = None
    /\ _losses = None /\ _penalties = None /\ loss_hist = None
    /\ _new_losses = None /\ _new_penalties = None
    /\ pc = "idle"
    /\ data = NoData /\ it = 0 /\ iterations = 0 /\ warp_iterations = 0
    /\ fit_template_arg = FALSE
    /\ temps = <<>> /\ X = None /\ Y = None
    /\ last_call = NoCall
    /\ result = Running
    /\ fit_completed = FALSE
    /\ temp_hist = <<>>
    /\ template_at_entry = None
    /\ hist_at_entry = None
    /\ step_outcome = <<>>

\* ------------------------------------------------------ temperature schedule
\* np.logspace(min_temp, max_temp, n) = 10 ^ np.linspace(min_temp, max_temp, n).
\* A temperature is held as its base-10 exponent multiplied by LogScale(n),
\* which is an integer and orders the temperatures as their values do.
LogScale(n) == IF n > 1 THEN n - 1 ELSE 1
logspace(mn, mx, n) == [i \in 1..n |-> mn * LogScale(n) + (i - 1) * (mx - mn)]

\* The schedule taken in index order.
in_order(s) == s
\* reversed(temperatures)
reversed(s) == [i \in 1..Len(s) |-> s[Len(s) + 1 - i]]

\* ------------------------------------------------------------ fit, the loop
Zeros(K) == [k \in 1..K |-> 0]

Call(op, arg) == [op |-> op, arg |-> arg, fitted |-> fit_completed]

\* line 49 with the dtype test left out.
FitRejects_rank_only(d) == d.ndim # 3
\* line 49: not a 3-d array of a numeric dtype.
FitRejects(d) == d.ndim # 3 \/ ~d.numeric

\* line 95: channel count of the data against the template's.
ChannelMismatch(d, tmpl) == ShapeN(d) # Len(tmpl[1])

\* Lines 98-102 reached: the loop of continue_fit starts.
EnterLoop(d, kw, tmpl, hist) ==
    /\ pc' = "for_it"
    /\ result' = Running
    /\ data' = d
    /\ it' = 0
    /\ iterations' = kw.iterations
    /\ warp_iterations' = kw.warp_iterations
    /\ fit_template_arg' = kw.fit_template
    /\ temps' = <<>> /\ X' = None /\ Y' = None
    /\ temp_hist' = <<>>
    /\ template_at_entry' = tmpl
    /\ hist_at_entry' = hist
    /\ step_outcome' = <<>>
    /\ UNCHANGED fit_completed

\* The call ends with an exception that reaches the caller.
Raise(type, about) ==
    /\ pc' = "done"
    /\ result' = Error(type, about)

\* The call returns v to the caller.
Return(v) ==
    /\ pc' = "done"
    /\ result' = Returned(v)

\* fit(data, **kwargs), up to the first round of the loop.
fit ==
    /\ pc = "idle"
    /\ \E d \in FitInputs :
        /\ last_call' = Call("fit", d.name)
        /\ UNCHANGED config
        /\ IF FitRejects(d)
           THEN /\ Raise("ValueError", "data must be a 3-d numeric array")
                /\ UNCHANGED <<model, lossState, scratch, frame, ghost>>
           ELSE LET K == ShapeK(d)
                    tmpl == MeanAxis0(d)
                    ident == [k \in 1..K |-> Linspace01(n_knots + 2)]
                    losses == quad_loss(predictwarp(ident, ident, tmpl), d)
                IN  /\ template' = tmpl
                    /\ x_knots' = ident
                    /\ y_knots' = ident
                    /\ _losses' = losses
                    /\ _penalties' = Zeros(K)
                    /\ loss_hist' = <<Mean(losses)>>
                    /\ _new_losses' = [k \in 1..K |-> Unwritten]
                    /\ _new_penalties' \in [1..K -> EmptyValues]
                    /\ \E kw \in Kwargs :
                        IF ~kw.ok
                        THEN /\ Raise("TypeError", "unexpected keyword argument")
                             /\ UNCHANGED <<frame, ghost>>
                        ELSE IF ChannelMismatch(d, tmpl)
                        THEN /\ Raise("ValueError", "Dimension mismatch.")
                             /\ UNCHANGED <<frame, ghost>>
                        ELSE EnterLoop(d, kw, tmpl, <<Mean(losses)>>)

\* continue_fit(data, iterations, warp_iterations, fit_template), up to the
\* first round of the loop.
continue_fit ==
    /\ pc = "idle"
    /\ \E d \in ContinueInputs, kw \in Kwargs :
        /\ kw.ok
        /\ loss_hist # None => Len(loss_hist) + kw.iterations <= MaxHist
        /\ last_call' = Call("continue_fit", d.name)
        /\ UNCHANGED <<config, model, lossState, scratch>>
        /\ IF template = None
           THEN /\ Raise("ValueError", "Model not initialized.")
                /\ UNCHANGED <<frame, ghost>>
           ELSE IF ChannelMismatch(d, template)
           THEN /\ Raise("ValueError", "Dimension mismatch.")
                /\ UNCHANGED <<frame, ghost>>
           ELSE EnterLoop(d, kw, template, loss_hist)

\* Where the round goes once the temperature schedule is exhausted.
\* line 108 with the fit_template option ignored.
AfterWarps_always_template(flag) == "template"
\* line 108: the template is refitted only when fit_template is set.
AfterWarps(flag) == IF flag THEN "template" ELSE "record"

\* `for it in pbar` (line 102): return self when the rounds are done, else
\* start fit_warps (line 105) by building its schedule (lines 138, 141).
for_it ==
    /\ pc = "for_it"
    /\ UNCHANGED <<config, model, lossState, scratch, last_call>>
    /\ UNCHANGED <<template_at_entry, hist_at_entry, step_outcome>>
    /\ UNCHANGED <<data, it, iterations, warp_iterations, fit_template_arg, X, Y>>
    /\ IF it >= iterations
       THEN /\ Return("self")
            /\ fit_completed' = (fit_completed \/ last_call.op = "fit")
            /\ UNCHANGED <<temps, temp_hist>>
       ELSE /\ temps' = reversed(logspace(min_temp, max_temp, warp_iterations))
            /\ temp_hist' = <<>>
            /\ pc' = IF temps' = <<>> THEN AfterWarps(fit_template_arg) ELSE "mutate"
            /\ UNCHANGED <<result, fit_completed>>

\* ---------------------------------------------------------------- fit_warps
\* line 159, accepting ties as well.
Improved_or_equal(new, cur) == new <= cur
\* line 159, accepting every candidate.
Improved_always(new, cur) == TRUE
\* line 159: idx = self._new_losses < self._losses
Improved(new, cur) == new < cur

\* One temperature of fit_warps, lines 141-156: draw the candidate, compute
\* its penalty and its loss (with early stopping against the stored loss).
fit_warps_mutate ==
    /\ pc = "mutate"
    /\ temps # <<>>
    /\ \E c \in _mutate_knots(x_knots, y_knots, n_knots, Head(temps)) :
        LET Xc == [k \in 1..Len(c) |-> c[k][1]]
            Yc == [k \in 1..Len(c) |-> c[k][2]]
            pen == IF warpreg > 0
                   THEN [k \in 1..Len(c) |-> warp_penalties(Xc, Yc)[k] * warpreg]
                   ELSE _new_penalties
            start == IF warpreg > 0 THEN pen ELSE Zeros(Len(c))
        IN  /\ X' = Xc
            /\ Y' = Yc
            /\ _new_penalties' = pen
            /\ _new_losses' = warp_with_quadloss(Xc, Yc, template, start,
                                                 _losses, data, TRUE)
    /\ temp_hist' = Append(temp_hist, Head(temps))
    /\ temps' = Tail(temps)
    /\ pc' = "accept"
    /\ UNCHANGED <<config, model, lossState, last_call, result>>
    /\ UNCHANGED <<data, it, iterations, warp_iterations, fit_template_arg>>
    /\ UNCHANGED <<fit_completed, template_at_entry, hist_at_entry, step_outcome>>

\* The same temperature, lines 158-163: commit the candidate for the trials
\* whose loss improved.  The candidate X, Y is not read again.
fit_warps_accept ==
    /\ pc = "accept"
    /\ LET idx == [k \in 1..Len(_losses) |-> Improved(_new_losses[k], _losses[k])]
       IN  /\ _losses' = [k \in 1..Len(_losses) |->
                            IF idx[k] THEN _new_losses[k] ELSE _losses[k]]
           /\ _penalties' = [k \in 1..Len(_losses) |->
                            IF idx[k] THEN _new_penalties[k] ELSE _penalties[k]]
           /\ x_knots' = [k \in 1..Len(_losses) |->
                            IF idx[k] THEN X[k] ELSE x_knots[k]]
           /\ y_knots' = [k \in 1..Len(_losses) |->
                            IF idx[k] THEN Y[k] ELSE y_knots[k]]
           /\ step_outcome' = [k \in 1..Len(_losses) |->
                            IF idx[k] THEN "accepted"
                            ELSE IF _new_losses[k] = _losses[k] THEN "tie"
                            ELSE "worse"]
    /\ X' = None /\ Y' = None
    /\ pc' = IF temps = <<>> THEN AfterWarps(fit_template_arg) ELSE "mutate"
    /\ UNCHANGED <<config, template, loss_hist, scratch, last_call, result>>
    /\ UNCHANGED <<fit_completed, temp_hist, template_at_entry, hist_at_entry>>
    /\ UNCHANGED <<data, it, iterations, warp_iterations, fit_template_arg, temps>>

\* -------------------------------------------------------------- fit_template
\* fit_template(data), line 111: solve the normal equations for the
\* template; a singular system makes the banded solver raise.
fit_template ==
    /\ pc = "template"
    /\ UNCHANGED <<config, x_knots, y_knots, lossState, scratch, frame, last_call, ghost>>
    /\ IF Singular(data, x_knots, y_knots)
       THEN /\ Raise("LinAlgError", "singular banded system")
            /\ UNCHANGED template
       ELSE /\ template' = TemplateSolve(data, x_knots, y_knots)
            /\ pc' = "record"
            /\ UNCHANGED result

\* line 124 replacing the history by the newest entry.
RecordLoss_overwrite(hist, v) == <<v>>
\* line 124: self.loss_hist.append(self._losses.mean())
RecordLoss(hist, v) == Append(hist, v)

\* End of a round, lines 113-124: after a template update recompute the
\* stored losses in full and add the stored penalties; append the mean loss.
end_round ==
    /\ pc = "record"
    /\ LET K == Len(_losses)
           full == warp_with_quadloss(x_knots, y_knots, template, Zeros(K),
                                      Zeros(K), data, FALSE)
           refreshed == IF warpreg > 0
                        THEN [k \in 1..K |-> full[k] + _penalties[k]]
                        ELSE full
           losses == IF fit_template_arg THEN refreshed ELSE _losses
       IN  /\ _losses' = losses
           /\ loss_hist' = RecordLoss(loss_hist, Mean(losses))
    /\ it' = it + 1
    /\ pc' = "for_it"
    /\ UNCHANGED <<config, model, _penalties, scratch, last_call, result, ghost>>
    /\ UNCHANGED <<data, iterations, warp_iterations, fit_template_arg, temps, X, Y>>

\* ---------------------------------------------------------------- inference
\* Arrays handed to transform.
XDense3 == [name |-> "X3", ndim |-> 3, sparse |-> FALSE,
            val |-> << << <<1>>, <<2>>, <<3>> >>, << <<4>>, <<5>>, <<6>> >> >>]
XDense2 == [name |-> "X2", ndim |-> 2, sparse |-> FALSE,
            val |-> << <<1, 2, 3>>, <<4, 5, 6>> >>]
XSparse == [name |-> "XS", ndim |-> 3, sparse |-> TRUE,
            val |-> << << <<0>>, <<1>>, <<0>> >>, << <<0>>, <<0>>, <<1>> >> >>]
\* A 1-d array: neither 2-d nor 3-d.
XRank1 == [name |-> "X1", ndim |-> 1, sparse |-> FALSE, val |-> <<1, 2, 3>>]
\* Three trials: more than the fitted model has.
XTrials3 == [name |-> "XK", ndim |-> 2, sparse |-> FALSE,
             val |-> << <<1, 2, 3>>, <<4, 5, 6>>, <<7, 8, 9>> >>]
TransformInputs == {XDense3, XDense2, XSparse, XRank1, XTrials3}

\* Query times of argsort_warps, in grid steps; -1 and Unit + 1 lie outside
\* [0, 1].
TChoices == {0 - 1, Unit \div 2, Unit + 1}

\* X[:, :, None]
ExpandAxis(v) == [k \in 1..Len(v) |-> [t \in 1..Len(v[k]) |-> <<v[k][t]>>]]

\* densewarp(y_knots, x_knots, X, out): X resampled through the inverse warp.
densewarp(yk, xk, v) ==
    [k \in 1..Len(v) |->
        LET T == Len(v[k])
        IN  [t \in 1..T |-> v[k][SampleIdx(WarpAt(yk[k], xk[k], Tref(T)[t]), T)]]]

\* sparse.where(X): coordinates (trial, time, neuron) of the stored entries;
\* times count from 0.
Where(v) ==
    {c \in (1..Len(v)) \X (0..(Len(v[1]) - 1)) \X (1..Len(v[1][1])) :
        v[c[1]][c[2] + 1][c[3]] # 0}

\* sparsealign(x_knots, y_knots, trials, times / T): warped time of one event.
sparsealign(xk, yk, trial, time, T) == WarpAt(yk[trial], xk[trial], (time * Unit) \div T)

\* np.argsort of the warped times, ties in index order.
Argsort(w) ==
    LET K == Len(w)
        Before(a, b) == w[a] < w[b] \/ (w[a] = w[b] /\ a < b)
    IN  [r \in 1..K |->
            CHOOSE k \in 1..K : Cardinality({j \in 1..K : Before(j, k)}) = r - 1]

\* predict(), lines 200-211.
predict ==
    /\ pc = "idle"
    /\ last_call' = Call("predict", "-")
    /\ IF x_knots = None
       THEN Raise("ValueError", "Model not initialized.")
       ELSE Return(predictwarp(x_knots, y_knots, template))
    /\ UNCHANGED <<config, model, lossState, scratch, frame, ghost>>

\* argsort_warps(t), lines 213-228.
argsort_warps ==
    /\ pc = "idle"
    /\ \E t \in TChoices :
        /\ last_call' = Call("argsort_warps", IF t < 0 \/ t > Unit THEN "outside" ELSE "inside")
        /\ IF x_knots = None
           THEN Raise("ValueError", "Model not initialized.")
           ELSE IF t < 0 \/ t > Unit
           THEN Raise("ValueError", "t must be between zero and one.")
           ELSE Return(Argsort([k \in 1..Len(x_knots) |->
                                    WarpAt(x_knots[k], y_knots[k], t)]))
    /\ UNCHANGED <<config, model, lossState, scratch, frame, ghost>>

\* transform(X, return_array), lines 230-276.
transform ==
    /\ pc = "idle"
    /\ \E Xin \in TransformInputs, return_array \in BOOLEAN :
        /\ last_call' = Call("transform", Xin.name)
        /\ IF x_knots = None
           THEN Raise("ValueError", "Model not initialized.")
           ELSE IF Xin.ndim # 2 /\ Xin.ndim # 3
           THEN Raise("ValueError", "Input should be 2d or 3d array.")
           ELSE
             LET v == IF Xin.ndim = 2 THEN ExpandAxis(Xin.val) ELSE Xin.val
                 T == Len(v[1])
                 warped == {<<c, sparsealign(x_knots, y_knots, c[1], c[2], T)>> :
                                c \in Where(v)}
                 wtime(e) == (e[2] * T) \div Unit
             IN  IF Len(v) # Len(x_knots)
                 THEN Raise("ValueError", "Number of trials does not match.")
                 ELSE IF ~Xin.sparse
                 THEN Return(densewarp(y_knots, x_knots, v))
                 ELSE IF return_array
                 THEN Return({<<e[1][1], wtime(e), e[1][3]>> :
                                e \in {f \in warped : wtime(f) < T /\ wtime(f) >= 0}})
                 ELSE Return({<<e[1][1], e[2] * T, e[1][3]>> : e \in warped})
    /\ UNCHANGED <<config, model, lossState, scratch, frame, ghost>>

\* Attributes the instance has: those assigned by __init__ (lines 22-31)
\* and, once fit got past its validation, those assigned by fit (60-79).
Attributes ==
    {"n_knots", "warpreg", "l2_smoothness", "min_temp", "max_temp",
     "template", "x_knots", "y_knots"}
    \cup (IF loss_hist # None
          THEN {"tref", "_losses", "_penalties", "loss_hist",
                "_new_losses", "_new_penalties"}
          ELSE {})

\* The attributes read by the dict display of dump_params, in order.
DumpKeys == <<"template", "x_knots", "y_knots", "loss_hist", "l2_smoothness",
              "q1", "q2">>

\* dump_params(), lines 278-289: the mapping holds the attributes' own
\* objects; reading an attribute the instance does not have raises.
dump_params ==
    /\ pc = "idle"
    /\ last_call' = Call("dump_params", "-")
    /\ LET missing == {i \in 1..Len(DumpKeys) : DumpKeys[i] \notin Attributes}
       IN  IF missing # {}
           THEN Raise("AttributeError", DumpKeys[Min(missing)])
           ELSE Return([i \in 1..Len(DumpKeys) |-> <<"self", DumpKeys[i]>>])
    /\ UNCHANGED <<config, model, lossState, scratch, frame, ghost>>

\* The caller has the outcome of the call (a value or an exception); the
\* frame of the call is gone and the instance is ready for its next call.
call_ends ==
    /\ pc = "done"
    /\ pc' = "idle"
    /\ last_call' = NoCall
    /\ result' = Running
    /\ data' = NoData /\ it' = 0 /\ iterations' = 0 /\ warp_iterations' = 0
    /\ fit_template_arg' = FALSE
    /\ temps' = <<>> /\ X' = None /\ Y' = None
    /\ temp_hist' = <<>>
    /\ template_at_entry' = None
    /\ hist_at_entry' = None
    /\ step_outcome' = <<>>
    /\ UNCHANGED <<config, model, lossState, scratch, fit_completed>>

\* ------------------------------------------------------------ specification
Next ==
    \/ fit
    \/ continue_fit
    \/ for_it
    \/ fit_warps_mutate
    \/ fit_warps_accept
    \/ fit_template
    \/ end_round
    \/ predict
    \/ argsort_warps
    \/ transform
    \/ dump_params
    \/ call_ends

Spec == Init /\ [][Next]_vars

\* ================================================================== claims
Trials == IF x_knots = None THEN {} ELSE 1..Len(x_knots)
InLoop == pc \in {"for_it", "mutate", "accept", "template", "record"}
Last(h) == h[Len(h)]
IsPrefix(a, b) == Len(a) <= Len(b) /\ \A i \in 1..Len(a) : a[i] = b[i]

\* The warp penalty term of trial k's held knots.
PenaltyTerm(k) == warpreg * warp_penalties(x_knots, y_knots)[k]
\* The loss of trial k's held knots and the held template against d,
\* computed in full, plus the penalty term when warpreg > 0.
FullLoss(xk, yk, d, k) ==
    quad_loss(predictwarp(xk, yk, template), d)[k]
    + (IF warpreg > 0 THEN warpreg * warp_penalties(xk, yk)[k] ELSE 0)

\* C1: for every trial the rows x_knots[k] and y_knots[k] have length
\* n_knots + 2, are non-decreasing, start at 0 and end at 1 (Unit), in every
\* state reached by fit, continue_fit and fit_warps.
C1_KnotsMonotone ==
    \A k \in Trials :
        /\ Len(x_knots[k]) = n_knots + 2
        /\ Len(y_knots[k]) = n_knots + 2
        /\ NonDecreasing(x_knots[k]) /\ NonDecreasing(y_knots[k])
        /\ x_knots[k][1] = 0 /\ y_knots[k][1] = 0
        /\ Last(x_knots[k]) = Unit /\ Last(y_knots[k]) = Unit

\* A mutation was accepted: some trial holds knots other than the identity.
C1_Witness ==
    /\ pc = "done" /\ result.kind = "value"
    /\ \E k \in Trials :
        /\ step_outcome # <<>> /\ step_outcome[k] = "accepted"
        /\ <<x_knots[k], y_knots[k]>> # <<Linspace01(n_knots + 2), Linspace01(n_knots + 2)>>

\* C2: at a temperature step, for each trial on its own, the candidate is
\* committed iff its full loss (penalty included) is strictly below the stored
\* loss; then knots, loss and penalty all take the candidate's values;
\* otherwise (a tie included) all four stay as they were.
C2_AcceptIffImproved ==
    [][pc = "accept" =>
        \A k \in Trials :
            IF FullLoss(X, Y, data, k) < _losses[k]
            THEN /\ x_knots'[k] = X[k] /\ y_knots'[k] = Y[k]
                 /\ _losses'[k] = FullLoss(X, Y, data, k)
                 /\ _penalties'[k] = _new_penalties[k]
            ELSE /\ x_knots'[k] = x_knots[k] /\ y_knots'[k] = y_knots[k]
                 /\ _losses'[k] = _losses[k]
                 /\ _penalties'[k] = _penalties[k]]_vars

\* One step accepted one trial's candidate and rejected the other's on a tie.
C2_Witness ==
    /\ step_outcome # <<>>
    /\ \E k \in Trials : step_outcome[k] = "accepted"
    /\ \E k \in Trials : step_outcome[k] = "tie"

\* C3 as claimed: within one fit_warps call the first candidate is drawn at
\* 10^min_temp, each later one at a temperature no lower, the last at
\* 10^max_temp.
C3_ColdestFirst ==
    (min_temp < max_temp /\ warp_iterations >= 2 /\ temp_hist # <<>>) =>
        /\ temp_hist[1] = min_temp * LogScale(warp_iterations)
        /\ NonDecreasing(temp_hist)
        /\ (temps = <<>> => Last(temp_hist) = max_temp * LogScale(warp_iterations))

\* C3 amended: the first candidate is drawn at 10^max_temp, each later one at
\* a temperature no higher, the last at 10^min_temp.
C3_HottestFirst ==
    (min_temp < max_temp /\ warp_iterations >= 2 /\ temp_hist # <<>>) =>
        /\ temp_hist[1] = max_temp * LogScale(warp_iterations)
        /\ \A i \in 1..(Len(temp_hist) - 1) : temp_hist[i] >= temp_hist[i + 1]
        /\ (temps = <<>> => Last(temp_hist) = min_temp * LogScale(warp_iterations))

\* A fit_warps call has gone through a schedule of two temperatures.
C3_Witness ==
    /\ warp_iterations >= 2 /\ temps = <<>> /\ Len(temp_hist) = warp_iterations
    /\ temp_hist[1] # Last(temp_hist)

\* C4: no trial's stored loss rises at a temperature step, and a round that
\* does not refit the template appends to loss_hist an entry no larger than
\* the entry before it.
C4_LossNonIncreasing ==
    [][/\ pc = "accept" => \A k \in Trials : _losses'[k] <= _losses[k]
       /\ (pc = "record" /\ ~fit_template_arg) =>
                Last(loss_hist') <= Last(loss_hist)]_vars

\* A round without template refit recorded a strictly smaller mean loss.
C4_Witness ==
    /\ pc = "for_it" /\ ~fit_template_arg /\ it >= 1
    /\ Len(loss_hist) >= 2
    /\ Last(loss_hist) < loss_hist[Len(loss_hist) - 1]

Queries == {"predict", "transform", "argsort_warps"}
Held == <<template, x_knots, y_knots, _losses, _penalties, loss_hist>>

\* C5: continue_fit, predict, transform and argsort_warps, called while no
\* fit call has returned normally, end in an error and never run their
\* computation.
C5_UnfittedCallsRaise ==
    (last_call.op \in Queries \cup {"continue_fit"} /\ ~last_call.fitted) =>
        /\ ~InLoop
        /\ pc = "done" => result.kind = "error"

\* The call is one with invalid input: fit with data that is not 3-d
\* numeric, continue_fit with another channel count than the template's,
\* transform with a wrong rank or trial count, argsort_warps with t outside
\* [0, 1].
C6_InvalidInput(call) ==
    \/ /\ call.op = "fit"
       /\ \E d \in FitInputs : d.name = call.arg /\ (d.ndim # 3 \/ ~d.numeric)
    \/ /\ call.op = "continue_fit" /\ template # None
       /\ \E d \in ContinueInputs : d.name = call.arg /\ ShapeN(d) # Len(template[1])
    \/ /\ call.op = "transform"
       /\ \E xin \in TransformInputs :
            /\ xin.name = call.arg
            /\ \/ xin.ndim \notin {2, 3}
               \/ (x_knots # None /\ Len(xin.val) # Len(x_knots))
    \/ call.op = "argsort_warps" /\ call.arg = "outside"

\* C6: a call with invalid input raises and leaves template, knots, loss
\* state and loss_hist exactly as they were, fitted instance or not.
C6_FailFast ==
    [][(pc = "idle" /\ C6_InvalidInput(last_call')) =>
            /\ pc' = "done"
            /\ result'.kind = "error"
            /\ Held' = Held]_vars

\* A fitted instance has rejected a fit call on data of a non-numeric dtype.
C6_Witness ==
    /\ pc = "done" /\ result.kind = "error"
    /\ last_call.op = "fit" /\ last_call.arg = DataObj.name
    /\ last_call.fitted
    /\ \E k \in Trials : x_knots[k] # Linspace01(n_knots + 2)

\* C7 as claimed: across fit and continue_fit calls an entry of loss_hist,
\* once recorded, is never removed or changed.
C7_AppendOnly ==
    [][loss_hist # None => IsPrefix(loss_hist, loss_hist')]_vars

\* C7 amended: outside the initialisation done by fit, loss_hist only grows,
\* by exactly one entry at the end of each round, so that a continue_fit call
\* that returns has grown it by exactly `iterations`; fit starts loss_hist
\* afresh with one entry.
C7_AppendOnlyBetweenFits ==
    [][/\ (loss_hist # None /\ ~(pc = "idle" /\ last_call'.op = "fit")) =>
            /\ IsPrefix(loss_hist, loss_hist')
            /\ Len(loss_hist') = Len(loss_hist) + (IF pc = "record" THEN 1 ELSE 0)
       /\ (pc = "idle" /\ last_call'.op = "fit" /\ loss_hist' # loss_hist) =>
            Len(loss_hist') = 1
       /\ (pc = "for_it" /\ pc' = "done") =>
            Len(loss_hist') = Len(hist_at_entry) + iterations]_vars

\* A continue_fit call of at least one round has returned.
C7_Witness ==
    /\ pc = "done" /\ result.kind = "value"
    /\ last_call.op = "continue_fit" /\ iterations >= 1
    /\ Len(loss_hist) = Len(hist_at_entry) + iterations
    /\ Len(hist_at_entry) >= 2

\* C8: fit_warps leaves the template alone; fit_template leaves the knots and
\* loss_hist alone; during continue_fit with fit_template=False the template
\* stays what it was at entry; predict, transform and argsort_warps change
\* nothing of template, knots, loss state and loss_hist.
C8_Frames ==
    [][/\ pc \in {"mutate", "accept"} => template' = template
       /\ pc = "template" => <<x_knots, y_knots, loss_hist>>' = <<x_knots, y_knots, loss_hist>>
       /\ (last_call'.op = "continue_fit" /\ ~fit_template_arg'
           /\ pc' \in {"for_it", "mutate", "accept", "template", "record", "done"}
           /\ result'.kind # "error") =>
                template' = template_at_entry'
       /\ (pc = "idle" /\ last_call'.op \in Queries) => Held' = Held]_vars

\* A continue_fit call with fit_template=False has returned after a round
\* that changed a trial's knots.
C8_Witness ==
    /\ pc = "done" /\ result.kind = "value"
    /\ last_call.op = "continue_fit" /\ ~fit_template_arg /\ iterations >= 1
    /\ step_outcome # <<>> /\ \E k \in Trials : step_outcome[k] = "accepted"
    /\ template = template_at_entry

\* C9: dump_params on an instance whose fit returned yields a mapping (with
\* template, knots, loss history and the configuration scalars).
C9_DumpReturnsMapping ==
    (pc = "done" /\ last_call.op = "dump_params" /\ last_call.fitted) =>
        /\ result.kind = "value"
        /\ Len(result.val) = Len(DumpKeys)

\* C10: on an instance whose fit returned (or inside fit), at the end of
\* fit's initialisation, after every temperature step and at the end of
\* every round, each trial's stored loss is the full loss of
\* its held knots and the held template against the data of the current
\* call, penalty term included, and (for warpreg > 0) the stored penalty is
\* that penalty term.
C10_LossConsistent ==
    (/\ last_call.op = "continue_fit" => last_call.fitted
     /\ \/ (pc = "for_it" /\ (last_call.op = "fit" \/ it >= 1))
        \/ (pc = "mutate" /\ temp_hist # <<>>)
        \/ (pc = "template" /\ temp_hist # <<>>)
        \/ (pc = "record" /\ ~fit_template_arg /\ temp_hist # <<>>)) =>
        \A k \in Trials :
            /\ _losses[k] = FullLoss(x_knots, y_knots, data, k)
            /\ warpreg > 0 => _penalties[k] = PenaltyTerm(k)

====
